---- MODULE Spec2Model ----
(***************************************************************************)
(* A model of keyv's sled adapter (SledStore and SledStoreBuilder) and of  *)
(* the postgres builder (PostgresStoreBuilder).                            *)
(*                                                                         *)
(* Text is a sequence of one-character strings, a byte string a sequence   *)
(* of integers 0..255.  A serde_json::Value is a record tagged by t.       *)
(* Floating point numbers and JSON objects are outside the value set.      *)
(***************************************************************************)
EXTENDS Integers, Sequences, FiniteSets, TLC

(* ------------------------------ bounds -------------------------------- *)

\* Largest reading of the clock.
MaxTime == 1

\* Largest time-to-live a caller passes to set, in clock units.
MaxTtl == 1

\* Longest key slice handed to remove_many.
MaxBatch == 3

(* ------------------------- Option and Result -------------------------- *)

None == [some |-> FALSE]

Some(x) == [some |-> TRUE, x |-> x]

Unit == [unit |-> TRUE]

Ok(x) == [kind |-> "Ok", val |-> x]

Err(e) == [kind |-> "Err", err |-> e]

\* StoreError::QueryError(e.to_string())
QueryError == Err("QueryError")

\* StoreError::SerializationError { source }
SerializationError == Err("SerializationError")

\* StoreError::ConnectionError(msg)
ConnectionError == Err("ConnectionError")

(* -------------------------- serde_json::Value ------------------------- *)

Null == [t |-> "Null"]

Bool(b) == [t |-> "Bool", b |-> b]

Number(n) == [t |-> "Number", n |-> n]

String(s) == [t |-> "String", s |-> s]

Array(a) == [t |-> "Array", a |-> a]

\* The float -0.0, which the reader makes of the text -0.
NegZero == [t |-> "Float", f |-> "-0.0"]

(* ------------------- &str <-> IVec (UTF-8 bytes) ---------------------- *)

\* The UTF-8 encoding of the characters the model's texts are made of.
Utf8 ==
    { <<"\t", <<9>> >>, <<"\n", <<10>> >>, <<"\r", <<13>> >>, <<" ", <<32>> >>,
      <<"\"", <<34>> >>, <<",", <<44>> >>, <<"-", <<45>> >>,
      <<"0", <<48>> >>, <<"1", <<49>> >>, <<"2", <<50>> >>, <<"3", <<51>> >>,
      <<"4", <<52>> >>, <<"5", <<53>> >>, <<"6", <<54>> >>, <<"7", <<55>> >>,
      <<"8", <<56>> >>, <<"9", <<57>> >>,
      <<"[", <<91>> >>, <<"\\", <<92>> >>, <<"]", <<93>> >>,
      <<"a", <<97>> >>, <<"e", <<101>> >>, <<"f", <<102>> >>, <<"g", <<103>> >>,
      <<"h", <<104>> >>, <<"i", <<105>> >>, <<"l", <<108>> >>, <<"n", <<110>> >>,
      <<"o", <<111>> >>, <<"r", <<114>> >>, <<"s", <<115>> >>, <<"t", <<116>> >>,
      <<"u", <<117>> >>,
      <<"é", <<195, 169>> >> }

\* U+FFFD, which from_utf8_lossy puts in place of an invalid byte.
Replacement == "U+FFFD"

RECURSIVE as_bytes(_)
as_bytes(s) ==
    IF s = <<>> THEN <<>>
    ELSE (CHOOSE p \in Utf8 : p[1] = Head(s))[2] \o as_bytes(Tail(s))

IsPrefixAt(p, b, i) ==
    /\ i + Len(p) - 1 <= Len(b)
    /\ \A j \in 1..Len(p) : b[i + j - 1] = p[j]

RECURSIVE from_utf8_lossy(_, _)
from_utf8_lossy(b, i) ==
    IF i > Len(b) THEN <<>>
    ELSE IF \E p \in Utf8 : IsPrefixAt(p[2], b, i)
         THEN LET p == CHOOSE q \in Utf8 : IsPrefixAt(q[2], b, i)
              IN  <<p[1]>> \o from_utf8_lossy(b, i + Len(p[2]))
         ELSE <<Replacement>> \o from_utf8_lossy(b, i + 1)

(* ----------------------- serde_json::to_string ------------------------ *)

Digits == <<"0", "1", "2", "3", "4", "5", "6", "7", "8", "9">>

RECURSIVE itoa(_)
itoa(n) ==
    IF n < 0 THEN <<"-">> \o itoa(0 - n)
    ELSE IF n < 10 THEN <<Digits[n + 1]>>
    ELSE itoa(n \div 10) \o <<Digits[(n % 10) + 1]>>

\* escape_char that writes a backslash as it is.
escape_char_RawBackslash(c) ==
    CASE c = "\"" -> <<"\\", "\"">>
      [] c = "\n" -> <<"\\", "n">>
      [] c = "\t" -> <<"\\", "t">>
      [] c = "\r" -> <<"\\", "r">>
      [] OTHER -> <<c>>

\* One character of a string, as the writer escapes it.
escape_char(c) ==
    CASE c = "\"" -> <<"\\", "\"">>
      [] c = "\\" -> <<"\\", "\\">>
      [] c = "\n" -> <<"\\", "n">>
      [] c = "\t" -> <<"\\", "t">>
      [] c = "\r" -> <<"\\", "r">>
      [] OTHER -> <<c>>

RECURSIVE format_escaped_str(_)
format_escaped_str(s) ==
    IF s = <<>> THEN <<>>
    ELSE escape_char(Head(s)) \o format_escaped_str(Tail(s))

RECURSIVE write_value(_), write_elements(_)
write_value(v) ==
    CASE v.t = "Null" -> <<"n", "u", "l", "l">>
      [] v.t = "Bool" -> IF v.b THEN <<"t", "r", "u", "e">>
                         ELSE <<"f", "a", "l", "s", "e">>
      [] v.t = "Number" -> itoa(v.n)
      [] v.t = "String" -> <<"\"">> \o format_escaped_str(v.s) \o <<"\"">>
      [] v.t = "Array" -> <<"[">> \o write_elements(v.a) \o <<"]">>

write_elements(a) ==
    IF a = <<>> THEN <<>>
    ELSE IF Len(a) = 1 THEN write_value(a[1])
    ELSE write_value(a[1]) \o <<",">> \o write_elements(Tail(a))

\* Serializing a Value (string keys, finite numbers) has no failing case.
serialize(v) == Ok(write_value(v))

(* ----------------------- serde_json::from_str ------------------------- *)

ParseFail == [ok |-> FALSE]

Parsed(v, next) == [ok |-> TRUE, v |-> v, next |-> next]

IsWs(c) == c \in {" ", "\n", "\t", "\r"}

IsDigit(c) == \E d \in 1..10 : Digits[d] = c

DigitVal(c) == (CHOOSE d \in 1..10 : Digits[d] = c) - 1

RECURSIVE parse_whitespace(_, _)
parse_whitespace(s, i) ==
    IF i <= Len(s) /\ IsWs(s[i]) THEN parse_whitespace(s, i + 1) ELSE i

\* The keyword lit stands at position i of s.
parse_ident(s, i, lit) ==
    /\ i + Len(lit) - 1 <= Len(s)
    /\ \A j \in 1..Len(lit) : s[i + j - 1] = lit[j]

\* The digits from position i on, added to the number read so far.
RECURSIVE parse_digits(_, _, _)
parse_digits(s, i, acc) ==
    IF i <= Len(s) /\ IsDigit(s[i])
    THEN parse_digits(s, i + 1, acc * 10 + DigitVal(s[i]))
    ELSE Parsed(acc, i)

\* An integer whose first digit stands at position i: a leading 0 stands alone.
parse_integer(s, i) ==
    IF i > Len(s) \/ ~IsDigit(s[i]) THEN ParseFail
    ELSE IF s[i] = "0"
         THEN IF i + 1 <= Len(s) /\ IsDigit(s[i + 1]) THEN ParseFail
              ELSE Parsed(0, i + 1)
         ELSE parse_digits(s, i, 0)

\* The character an escape sequence \c stands for.
parse_escape(c) ==
    CASE c = "\"" -> Some("\"")
      [] c = "\\" -> Some("\\")
      [] c = "n" -> Some("\n")
      [] c = "t" -> Some("\t")
      [] c = "r" -> Some("\r")
      [] OTHER -> None

\* The string whose opening quote has been read; position i is inside it.
RECURSIVE parse_str(_, _, _)
parse_str(s, i, acc) ==
    IF i > Len(s) THEN ParseFail
    ELSE IF s[i] = "\"" THEN Parsed(String(acc), i + 1)
    ELSE IF s[i] = "\\"
         THEN IF i + 1 > Len(s) \/ ~parse_escape(s[i + 1]).some THEN ParseFail
              ELSE parse_str(s, i + 2, Append(acc, parse_escape(s[i + 1]).x))
    ELSE IF s[i] \in {"\n", "\t", "\r"} THEN ParseFail
    ELSE parse_str(s, i + 1, Append(acc, s[i]))

RECURSIVE parse_value(_, _), parse_seq(_, _, _)
parse_value(s, i) ==
    LET j == parse_whitespace(s, i) IN
    IF j > Len(s) THEN ParseFail
    ELSE CASE s[j] = "n" ->
                IF parse_ident(s, j, <<"n", "u", "l", "l">>)
                THEN Parsed(Null, j + 4) ELSE ParseFail
           [] s[j] = "t" ->
                IF parse_ident(s, j, <<"t", "r", "u", "e">>)
                THEN Parsed(Bool(TRUE), j + 4) ELSE ParseFail
           [] s[j] = "f" ->
                IF parse_ident(s, j, <<"f", "a", "l", "s", "e">>)
                THEN Parsed(Bool(FALSE), j + 5) ELSE ParseFail
           [] s[j] = "-" ->
                LET r == parse_integer(s, j + 1) IN
                IF ~r.ok THEN ParseFail
                ELSE IF r.v = 0 THEN Parsed(NegZero, r.next)
                ELSE Parsed(Number(0 - r.v), r.next)
           [] IsDigit(s[j]) ->
                LET r == parse_integer(s, j) IN
                IF r.ok THEN Parsed(Number(r.v), r.next) ELSE ParseFail
           [] s[j] = "\"" -> parse_str(s, j + 1, <<>>)
           [] s[j] = "[" ->
                LET k == parse_whitespace(s, j + 1) IN
                IF k <= Len(s) /\ s[k] = "]" THEN Parsed(Array(<<>>), k + 1)
                ELSE parse_seq(s, k, <<>>)
           [] OTHER -> ParseFail

\* The elements of an array from position i on, after those in acc.
parse_seq(s, i, acc) ==
    LET r == parse_value(s, i) IN
    IF ~r.ok THEN ParseFail
    ELSE LET k == parse_whitespace(s, r.next) IN
         IF k > Len(s) THEN ParseFail
         ELSE IF s[k] = "," THEN parse_seq(s, k + 1, Append(acc, r.v))
         ELSE IF s[k] = "]" THEN Parsed(Array(Append(acc, r.v)), k + 1)
         ELSE ParseFail

\* One value, then nothing but whitespace to the end of the text.
deserialize(s) ==
    LET r == parse_value(s, 1) IN
    IF r.ok /\ parse_whitespace(s, r.next) > Len(s) THEN Ok(r.v)
    ELSE SerializationError

(* ------------------------------ the store ----------------------------- *)

Keys == {"k1", "k2", "k3"}

\* The two numbers examples/sled.rs sets one after the other.
Numbers == {Number(42), Number(10)}

\* The values of examples/sled.rs, and one that needs every escape.
Values ==
    { Number(42),
      Number(10),
      String(<<"l", "i", "f", "e", " ", "l", "o", "n", "g">>),
      Array(<<String(<<"h", "o", "l", "a">>), String(<<"t", "e", "s", "t">>)>>),
      Array(<<Null, Bool(FALSE), Number(-107),
              String(<<"\"", "\\", "\n", "é", "]">>), Array(<<>>)>>) }

\* The conversions of set and get, tabulated over the values of the model
\* and computed for any other argument.
ToStringTable == [v \in Values \cup Numbers |-> serialize(v)]

to_string(v) == IF v \in DOMAIN ToStringTable THEN ToStringTable[v] ELSE serialize(v)

AsBytesTable == [s \in {ToStringTable[v].val : v \in DOMAIN ToStringTable} |-> as_bytes(s)]

str2ivec(s) == IF s \in DOMAIN AsBytesTable THEN AsBytesTable[s] ELSE as_bytes(s)

LossyTable == [b \in {AsBytesTable[s] : s \in DOMAIN AsBytesTable} |-> from_utf8_lossy(b, 1)]

ivec2str(val) == IF val \in DOMAIN LossyTable THEN LossyTable[val] ELSE from_utf8_lossy(val, 1)

FromStrTable == [s \in {LossyTable[b] : b \in DOMAIN LossyTable} |-> deserialize(s)]

from_str(s) == IF s \in DOMAIN FromStrTable THEN FromStrTable[s] ELSE deserialize(s)

\* The ttl argument of set.
TTLs == {None} \cup {Some(t) : t \in 1..MaxTtl}

\* What a call into the sled engine comes back with: Ok, or a sled::Error.
EngineOutcomes == {"ok", "io"}

\* Key slices of up to n keys.
RECURSIVE Batches(_)
Batches(n) ==
    IF n = 0 THEN {<<>>}
    ELSE Batches(n - 1) \cup
         {Append(b, k) : b \in {c \in Batches(n - 1) : Len(c) = n - 1}, k \in Keys}

\* The key slices a caller hands to remove_many.
BatchSet == Batches(MaxBatch)

\* The keys the calls with a ttl are made on.
TtlKeys == {"k1", "k2"}

\* sled::Tree::get
tree_get(d, key) == d[key]

\* tree_insert that keeps the entry a key already has.
tree_insert_KeepFirst(d, key, bytes) ==
    IF d[key].some THEN d ELSE [d EXCEPT ![key] = Some(bytes)]

\* sled::Tree::insert
tree_insert(d, key, bytes) == [d EXCEPT ![key] = Some(bytes)]

\* sled::Tree::remove
tree_remove(d, key) == [d EXCEPT ![key] = None]

\* SledStore::get that reports a missing key as a failed query.
SledGet_MissingIsError(d, key, engine) ==
    IF engine = "ok"
    THEN LET val == d[key] IN
         IF val.some
         THEN LET parsed == from_str(ivec2str(val.x)) IN
              IF parsed.kind = "Ok" THEN Ok(Some(parsed.val))
              ELSE SerializationError
         ELSE QueryError
    ELSE QueryError

\* SledStore::get; engine is the outcome of self.db.get.
SledGet(d, key, engine) ==
    IF engine = "ok"
    THEN LET val == tree_get(d, key) IN
         IF val.some
         THEN LET parsed == from_str(ivec2str(val.x)) IN
              IF parsed.kind = "Ok" THEN Ok(Some(parsed.val))
              ELSE SerializationError
         ELSE Ok(None)
    ELSE QueryError

\* SledStore::set that stores nothing under a ttl, as if it had run out.
SledSet_TtlExpires(d, key, value, ttl, engine) ==
    LET value_str == to_string(value) IN
    IF value_str.kind = "Err" THEN [db |-> d, res |-> SerializationError]
    ELSE IF engine = "ok"
         THEN [db |-> IF ttl.some THEN [d EXCEPT ![key] = None]
                      ELSE [d EXCEPT ![key] = Some(str2ivec(value_str.val))],
               res |-> Ok(Unit)]
         ELSE [db |-> d, res |-> QueryError]

\* SledStore::set; engine is the outcome of self.db.insert.
SledSet(d, key, value, ttl, engine) ==
    LET value_str == to_string(value) IN
    IF value_str.kind = "Err" THEN [db |-> d, res |-> SerializationError]
    ELSE IF engine = "ok"
         THEN [db |-> tree_insert(d, key, str2ivec(value_str.val)), res |-> Ok(Unit)]
         ELSE [db |-> d, res |-> QueryError]

\* SledStore::remove that reports a missing key as a failed query.
SledRemove_MissingIsError(d, key, engine) ==
    IF engine = "ok" /\ d[key].some THEN [db |-> [d EXCEPT ![key] = None], res |-> Ok(Unit)]
    ELSE [db |-> d, res |-> QueryError]

\* SledStore::remove; engine is the outcome of self.db.remove.
SledRemove(d, key, engine) ==
    IF engine = "ok" THEN [db |-> tree_remove(d, key), res |-> Ok(Unit)]
    ELSE [db |-> d, res |-> QueryError]

\* remove_many that goes on after a failed removal and reports it at the end.
RECURSIVE SledRemoveManyFrom_GoesOn(_, _, _, _)
SledRemoveManyFrom_GoesOn(d, keys, i, failAt) ==
    IF i > Len(keys)
    THEN [db |-> d, res |-> IF failAt = 0 THEN Ok(Unit) ELSE QueryError, calls |-> i - 1]
    ELSE IF i = failAt THEN SledRemoveManyFrom_GoesOn(d, keys, i + 1, failAt)
    ELSE SledRemoveManyFrom_GoesOn([d EXCEPT ![keys[i]] = None], keys, i + 1, failAt)

\* SledStore::remove_many from the i-th key on; the failAt-th call of
\* self.db.remove fails (none does when failAt = 0).
RECURSIVE SledRemoveManyFrom(_, _, _, _)
SledRemoveManyFrom(d, keys, i, failAt) ==
    IF i > Len(keys) THEN [db |-> d, res |-> Ok(Unit), calls |-> i - 1]
    ELSE IF i = failAt THEN [db |-> d, res |-> QueryError, calls |-> i]
    ELSE SledRemoveManyFrom(tree_remove(d, keys[i]), keys, i + 1, failAt)

SledRemoveMany(d, keys, failAt) == SledRemoveManyFrom(d, keys, 1, failAt)

\* SledStore::clear that erases the tree.
SledClear_Erases(d) == [db |-> [k \in DOMAIN d |-> None], res |-> Ok(Unit)]

\* SledStore::clear
SledClear(d) == [db |-> d, res |-> Ok(Unit)]

\* SledStore::initialize
SledInitialize(d) == [db |-> d, res |-> Ok(Unit)]


(* ---------------------------- the builders ---------------------------- *)

\* A thread that panicked: build returns nothing to its caller.
Panic(msg) == [kind |-> "Panic", msg |-> msg]

\* crate::DEFAUTL_NAMESPACE_NAME
DEFAUTL_NAMESPACE_NAME == <<"k", "e", "y", "v">>

\* A handle the caller made, and one that build opened at a place.
Given(h) == [by |-> "caller", h |-> h]

Opened(at) == [by |-> "build", at |-> at]

\* What build did besides returning: the uris it connected to or the paths
\* it opened, and whether it read the environment.
Built(res, opens, env) == [res |-> res, opens |-> opens, env |-> env]

NotBuilt == Built([kind |-> "NotBuilt"], <<>>, FALSE)

\* PostgresStoreBuilder::new
PostgresNew == [uri |-> None, pool |-> None, table_name |-> None, schema |-> None]

\* PostgresStoreBuilder::build that looks at the uri first.
PostgresBuild_UriFirst(b, connect) ==
    LET table_name == IF b.table_name.some THEN b.table_name.x
                      ELSE DEFAUTL_NAMESPACE_NAME
        store(pool) == [pool |-> pool, table_name |-> table_name, schema |-> b.schema]
    IN
    IF b.uri.some
    THEN IF connect = "ok" THEN Built(Ok(store(Opened(b.uri.x))), <<b.uri.x>>, FALSE)
         ELSE Built(ConnectionError, <<b.uri.x>>, FALSE)
    ELSE IF b.pool.some THEN Built(Ok(store(b.pool.x)), <<>>, FALSE)
    ELSE Built(Panic("PostgresStore requires either a URI or an existing pool to be set"),
               <<>>, FALSE)

\* PostgresStoreBuilder::build; connect is the outcome of PgPoolOptions::connect.
PostgresBuild(b, connect) ==
    LET table_name == IF b.table_name.some THEN b.table_name.x
                      ELSE DEFAUTL_NAMESPACE_NAME
        store(pool) == [pool |-> pool, table_name |-> table_name, schema |-> b.schema]
    IN
    IF b.pool.some THEN Built(Ok(store(b.pool.x)), <<>>, FALSE)
    ELSE IF ~b.uri.some
         THEN Built(Panic("PostgresStore requires either a URI or an existing pool to be set"),
                    <<>>, FALSE)
    ELSE IF connect = "ok" THEN Built(Ok(store(Opened(b.uri.x))), <<b.uri.x>>, FALSE)
    ELSE Built(ConnectionError, <<b.uri.x>>, FALSE)

\* SledStoreBuilder::new
SledNew == [db |-> None, db_name |-> None]

\* str::replace(from, to) for a one-character pattern.
RECURSIVE replace(_, _, _)
replace(s, from, to) ==
    IF s = <<>> THEN <<>>
    ELSE (IF Head(s) = from THEN to ELSE <<Head(s)>>) \o replace(Tail(s), from, to)

\* SledStoreBuilder::build; env is the HOME variable of the process, open the
\* outcome of sled::open.
SledBuild(b, env, open) ==
    LET db_name == IF b.db_name.some THEN b.db_name.x ELSE DEFAUTL_NAMESPACE_NAME
        store(d) == [db |-> d, db_name |-> db_name]
    IN
    IF b.db.some THEN Built(Ok(store(b.db.x)), <<>>, FALSE)
    ELSE IF ~env.some
         THEN Built(Panic("called Result::unwrap() on an Err value: NotPresent"),
                    <<>>, TRUE)
    ELSE LET path == replace(db_name, "~", env.x) IN
         IF open = "ok" THEN Built(Ok(store(Opened(path))), <<path>>, TRUE)
         ELSE Built(ConnectionError, <<path>>, TRUE)

\* The arguments of the setters.
Uris == {<<"p", "g", ":", "a">>, <<"p", "g", ":", "b">>}

Pools == {Given("pool1"), Given("pool2")}

TableNames == {<<"t">>}

Schemas == {<<"s">>}

Dbs == {Given("db1"), Given("db2")}

DbNames == {<<"d", "b">>, <<"~", "/", "d", "b">>, <<"~">>}

Homes == {<<"/", "h">>}

HasTilde(s) == \E i \in 1..Len(s) : s[i] = "~"

(* ------------------------------- state -------------------------------- *)

VARIABLES
    db,       \* SledStore.db: the sled tree, key -> Option<IVec>
    result,   \* the last call on the store and what it returned
    now,      \* the clock
    hist,     \* history: per key, what the successful set and remove calls asked for
    pg,       \* a PostgresStoreBuilder
    pgBuilt,  \* what build made of pg
    sled,     \* a SledStoreBuilder
    sledBuilt,\* what build made of sled
    home      \* the HOME variable of the process environment

storeVars == <<db, result, now, hist>>

builderVars == <<pg, pgBuilt, sled, sledBuilt, home>>

Never == [state |-> "never"]

Removed == [state |-> "removed"]

\* Key holds v since its last successful set; left: what is left of that
\* set's ttl (None: set without ttl, or the ttl is not kept).
Live(v, left) == [state |-> "live", v |-> v, left |-> left]

\* The record of a call. engine: the outcome of its one engine call; keys,
\* failAt, calls, hit: a remove_many's slice, the index of its failing engine
\* call (0: none), the engine calls it made and the entries it deleted;
\* had: the key of a remove held an entry; again: the remove follows a
\* successful remove of the same key; old: the value the history had for the
\* key of a set, and of the get that follows a successful set of its key.
Call(op, key, engine, res) ==
    [op |-> op, key |-> key, engine |-> engine, res |-> res,
     keys |-> <<>>, failAt |-> 0, calls |-> 0, hit |-> 0,
     had |-> FALSE, again |-> FALSE, old |-> None]

StoreInit ==
    /\ db = [k \in Keys |-> None]
    /\ result = Call("new", "", "ok", Ok(Unit))
    /\ now = 0
    /\ hist = [k \in Keys |-> Never]

BuilderInit ==
    /\ pg = PostgresNew
    /\ pgBuilt = NotBuilt
    /\ sled = SledNew
    /\ sledBuilt = NotBuilt
    /\ home = Some(CHOOSE h \in Homes : TRUE)

(* ------------------------------ actions ------------------------------- *)

Initialize ==
    LET r == SledInitialize(db) IN
    /\ db' = r.db
    /\ result' = Call("initialize", "", "ok", r.res)
    /\ UNCHANGED <<now, hist, builderVars>>

Get ==
    \E key \in Keys, engine \in EngineOutcomes :
        /\ result' = [Call("get", key, engine, SledGet(db, key, engine)) EXCEPT
                        !.old = IF /\ result.op = "set"
                                   /\ result.key = key
                                   /\ result.res = Ok(Unit)
                                THEN result.old ELSE None]
        /\ UNCHANGED <<db, now, hist, builderVars>>

\* set(key, value, ttl)
SetCall(key, value, ttl, engine) ==
    LET r == SledSet(db, key, value, ttl, engine) IN
    /\ db' = r.db
    /\ result' = [Call("set", key, engine, r.res) EXCEPT
                    !.old = IF hist[key].state = "live" THEN Some(hist[key].v) ELSE None]
    /\ UNCHANGED <<now, builderVars>>

\* The history after the set that result' records; left is the ttl to count down.
Written(key, value, left) ==
    IF result'.res = Ok(Unit) THEN [hist EXCEPT ![key] = Live(value, left)] ELSE hist

Set ==
    \E key \in Keys, value \in Numbers, ttl \in TTLs, engine \in EngineOutcomes :
        /\ SetCall(key, value, ttl, engine)
        /\ hist' = Written(key, value, None)

\* set(key, 42, None), the call that fills the store before a remove_many;
\* no history is kept of it.
SetNumber ==
    \E key \in Keys, engine \in EngineOutcomes :
        /\ SetCall(key, Number(42), None, engine)
        /\ UNCHANGED hist

Forget(h) == IF h.state = "never" THEN Never ELSE Removed

Remove ==
    \E key \in Keys, engine \in EngineOutcomes :
        LET r == SledRemove(db, key, engine) IN
        /\ db' = r.db
        /\ result' = [Call("remove", key, engine, r.res) EXCEPT
                        !.had = db[key].some,
                        !.again = /\ result.op = "remove"
                                  /\ result.key = key
                                  /\ result.res = Ok(Unit)]
        /\ hist' = IF r.res = Ok(Unit)
                   THEN [hist EXCEPT ![key] = Forget(hist[key])]
                   ELSE hist
        /\ UNCHANGED <<now, builderVars>>

RemoveMany ==
    \E keys \in BatchSet :
        \E failAt \in 0..Len(keys) :
            LET r == SledRemoveMany(db, keys, failAt) IN
            /\ db' = r.db
            /\ result' = [Call("remove_many", "", IF failAt = 0 THEN "ok" ELSE "io", r.res)
                            EXCEPT !.keys = keys, !.failAt = failAt, !.calls = r.calls,
                                   !.hit = Cardinality({k \in Keys : db[k].some /\ ~r.db[k].some})]
            /\ UNCHANGED <<now, hist, builderVars>>

Clear ==
    LET r == SledClear(db) IN
    /\ db' = r.db
    /\ result' = Call("clear", "", "ok", r.res)
    /\ UNCHANGED <<now, hist, builderVars>>

\* set, with a history that counts the ttl down.
SetTtl ==
    \E key \in TtlKeys, value \in Values, ttl \in TTLs, engine \in EngineOutcomes :
        /\ SetCall(key, value, ttl, engine)
        /\ hist' = Written(key, value, ttl)

\* One unit of time passes.
Tick ==
    /\ now < MaxTime
    /\ now' = now + 1
    /\ hist' = [k \in Keys |->
                  IF hist[k].state = "live" /\ hist[k].left.some /\ hist[k].left.x > 0
                  THEN [hist[k] EXCEPT !.left = Some(hist[k].left.x - 1)]
                  ELSE hist[k]]
    /\ UNCHANGED <<db, result, builderVars>>

(* -------------------------- builder actions --------------------------- *)

PgNew ==
    /\ pg' = PostgresNew
    /\ pgBuilt' = NotBuilt
    /\ UNCHANGED <<storeVars, sled, sledBuilt, home>>

PgSetter(field, x) ==
    /\ pgBuilt = NotBuilt
    /\ pg' = [pg EXCEPT ![field] = Some(x)]
    /\ UNCHANGED <<storeVars, pgBuilt, sled, sledBuilt, home>>

PgSchema == \E x \in Schemas : PgSetter("schema", x)

PgTableName == \E x \in TableNames : PgSetter("table_name", x)

PgUri == \E x \in Uris : PgSetter("uri", x)

PgPool == \E x \in Pools : PgSetter("pool", x)

\* build(self): the builder is spent, pg keeps what it was built from.
PgBuild ==
    /\ pgBuilt = NotBuilt
    /\ \E connect \in {"ok", "refused"} : pgBuilt' = PostgresBuild(pg, connect)
    /\ UNCHANGED <<storeVars, pg, sled, sledBuilt, home>>

SledBuilderNew ==
    /\ sled' = SledNew
    /\ sledBuilt' = NotBuilt
    /\ UNCHANGED <<storeVars, pg, pgBuilt, home>>

SledSetter(field, x) ==
    /\ sledBuilt = NotBuilt
    /\ sled' = [sled EXCEPT ![field] = Some(x)]
    /\ UNCHANGED <<storeVars, pg, pgBuilt, sledBuilt, home>>

SledDbName == \E x \in DbNames : SledSetter("db_name", x)

SledDb == \E x \in Dbs : SledSetter("db", x)

\* build(self): the builder is spent, sled keeps what it was built from.
SledBuilderBuild ==
    /\ sledBuilt = NotBuilt
    /\ \E open \in {"ok", "io"} : sledBuilt' = SledBuild(sled, home, open)
    /\ UNCHANGED <<storeVars, pg, pgBuilt, sled, home>>

\* The process environment changes between two builds.
SetEnv ==
    /\ sledBuilt = NotBuilt
    /\ \E h \in {None} \cup {Some(x) : x \in Homes} : h # home /\ home' = h
    /\ UNCHANGED <<storeVars, pg, pgBuilt, sled, sledBuilt>>

vars == <<db, result, now, hist, pg, pgBuilt, sled, sledBuilt, home>>

Init == StoreInit /\ BuilderInit

Next ==
    \/ Initialize
    \/ Get
    \/ Set
    \/ Remove
    \/ Clear

Spec == Init /\ [][Next]_vars

NextTtl ==
    \/ Initialize
    \/ Get
    \/ SetTtl
    \/ Remove
    \/ Clear
    \/ Tick

SpecTtl == Init /\ [][NextTtl]_vars

NextBatch ==
    \/ SetNumber
    \/ RemoveMany

SpecBatch == Init /\ [][NextBatch]_vars
NextBuilder ==
    \/ PgNew
    \/ PgSchema
    \/ PgTableName
    \/ PgUri
    \/ PgPool
    \/ PgBuild
    \/ SledBuilderNew
    \/ SledDbName
    \/ SledDb
    \/ SledBuilderBuild
    \/ SetEnv

SpecBuilder == Init /\ [][NextBuilder]_vars

(* ------------------------------- claims ------------------------------- *)

\* The call recorded in result is a get of a key that holds a value.
GetOfLive == result.op = "get" /\ hist[result.key].state = "live"

C3_AbsentNeverErrs ==
    (result.op = "get" /\ hist[result.key].state # "live") => result.res = Ok(None)

\* C3, amended: a get of such a key returns Ok(None) when the engine serves the
\* read and QueryError when the engine fails; it never returns a value.
C3_AbsentIsNone ==
    (result.op = "get" /\ hist[result.key].state # "live")
        => result.res = IF result.engine = "ok" THEN Ok(None) ELSE QueryError

\* A key that was set and then removed was read as Ok(None).
C3_Witness ==
    /\ result.op = "get"
    /\ hist[result.key].state = "removed"
    /\ result.engine = "ok"
    /\ result.res = Ok(None)

\* C4 as stated: a remove of an absent key returns Ok(()).
C4_AbsentRemoveIsOk ==
    (result.op = "remove" /\ ~result.had) => result.res = Ok(Unit)

\* C4, amended: a remove of an absent key leaves the tree as it is, so two
\* removes leave what one leaves; it returns Ok(()) when the engine serves the
\* call and QueryError when the engine fails.
C4_RemoveIdempotent ==
    [][(result'.op = "remove" /\ ~db[result'.key].some)
          => /\ db' = db
             /\ result'.res = IF result'.engine = "ok" THEN Ok(Unit) ELSE QueryError]_vars

\* A second remove, right after a successful first, returned Ok(()) while
\* another key held a value.
C4_Witness ==
    /\ result.op = "remove"
    /\ result.again
    /\ ~result.had
    /\ result.res = Ok(Unit)
    /\ \E k \in Keys : db[k].some

\* C5: remove_many(keys) whose f-th engine call is the first to fail deletes the
\* keys before the f-th, leaves every other entry, makes no call after the
\* f-th and returns QueryError; when none fails, every key of the slice is
\* absent afterwards, the other entries are left and it returns Ok(()).
C5_HaltsAtFirstFailure ==
    [][result'.op = "remove_many"
          => LET keys == result'.keys
                 f == result'.failAt
                 served == IF f = 0 THEN Len(keys) ELSE f - 1
             IN  /\ result'.res = IF f = 0 THEN Ok(Unit) ELSE QueryError
                 /\ result'.calls = IF f = 0 THEN Len(keys) ELSE f
                 /\ \A k \in Keys :
                        db'[k] = IF \E i \in 1..served : keys[i] = k THEN None ELSE db[k]]_vars

\* remove_many([k1, k2, k3]) failed on k2: it deleted the entry of k1 and made
\* two engine calls; k2 and k3 hold their entries.
C5_Witness ==
    /\ result.op = "remove_many"
    /\ Len(result.keys) = 3
    /\ Cardinality({result.keys[i] : i \in 1..3}) = 3
    /\ result.failAt = 2
    /\ result.calls = 2
    /\ result.hit = 1
    /\ result.res = QueryError
    /\ ~db[result.keys[1]].some
    /\ db[result.keys[2]].some
    /\ db[result.keys[3]].some

\* PostgresStoreBuilder::build ran on a builder with neither pool nor uri.
PgNoEndpoint == pgBuilt # NotBuilt /\ ~pg.pool.some /\ ~pg.uri.some

\* C6: build() on a PostgresStoreBuilder with neither pool nor uri returns
\* Err(ConnectionError) to its caller.
C6_NoEndpointIsConnectionError == PgNoEndpoint => pgBuilt.res = ConnectionError

SledName == IF sled.db_name.some THEN sled.db_name.x ELSE DEFAUTL_NAMESPACE_NAME

\* C8: build() on a builder that was given a pool (a db) returns a store of
\* exactly that handle and opens nothing, whatever uri (db_name) is set; what
\* build opens, it opens from the uri (the path) of a builder without a handle.
C8_HandleWins ==
    /\ (pgBuilt # NotBuilt /\ pg.pool.some)
           => /\ pgBuilt.res.kind = "Ok"
              /\ pgBuilt.res.val.pool = pg.pool.x
              /\ pgBuilt.opens = <<>>
    /\ (pgBuilt # NotBuilt /\ pgBuilt.opens # <<>>)
           => /\ ~pg.pool.some
              /\ pg.uri.some
              /\ pgBuilt.opens = <<pg.uri.x>>
    /\ (sledBuilt # NotBuilt /\ sled.db.some)
           => /\ sledBuilt.res.kind = "Ok"
              /\ sledBuilt.res.val.db = sled.db.x
              /\ sledBuilt.opens = <<>>
    /\ (sledBuilt # NotBuilt /\ sledBuilt.opens # <<>>)
           => /\ ~sled.db.some
              /\ sledBuilt.opens = <<replace(SledName, "~", home.x)>>

\* Both builders were built with a handle and with a uri (a db_name) set.
C8_Witness ==
    /\ pgBuilt # NotBuilt
    /\ pg.pool.some
    /\ pg.uri.some
    /\ pgBuilt.res.kind = "Ok"
    /\ sledBuilt # NotBuilt
    /\ sled.db.some
    /\ sled.db_name.some
    /\ sledBuilt.res.kind = "Ok"

\* C9: clear() returns Ok(()) and leaves every entry, so a get of any key returns
\* after it what it returned before it, under either outcome of the engine.
C9_ClearIsNoOp ==
    [][result'.op = "clear"
          => /\ result'.res = Ok(Unit)
             /\ db' = db
             /\ \A k \in Keys, e \in EngineOutcomes :
                    SledGet(db', k, e) = SledGet(db, k, e)]_vars

\* clear() returned on a store that holds an entry.
C9_Witness ==
    /\ result.op = "clear"
    /\ result.res = Ok(Unit)
    /\ \E k \in Keys : db[k].some

\* C10: build() on a SledStoreBuilder without a db returns Ok or
\* Err(ConnectionError) when the path holds no ~, whether or not HOME is set, and
\* returns an Err when the path holds a ~ and HOME is unset.
C10_HomeOnlyForTilde ==
    (sledBuilt # NotBuilt /\ ~sled.db.some)
        => /\ ~HasTilde(SledName)
                  => \/ sledBuilt.res.kind = "Ok"
                     \/ sledBuilt.res = ConnectionError
           /\ (HasTilde(SledName) /\ ~home.some) => sledBuilt.res.kind = "Err"

====
